---- MODULE Spec2Model ----
(***************************************************************************)
(* The MOORA family of skcriteria.madm.moora: ratio, refpoint, fmf and     *)
(* multimoora, over exact arithmetic.                                      *)
(*                                                                         *)
(* Numbers.  A rational is a reduced pair <<p, q>> with q > 0.  An entry   *)
(* of a vector-normalized matrix is x / sqrt(S), S the sum of squares of   *)
(* its column; it is kept as the record [n |-> x, s |-> S].  Its value is  *)
(* the rational x / ISqrt(S) (the input matrices have columns whose        *)
(* Euclidean norm is a positive integer), and its natural logarithm is     *)
(* 1/2 * ln(x^2 / S), whatever S.  A logarithmic score is the record      *)
(* [kind, one, num, den]: for kind "fin" the real one + 1/2*ln(num/den),   *)
(* and "ninf", "pinf", "nan" for the IEEE values np.log and the sums       *)
(* produce on zero and negative entries.  Sums of logarithms are products  *)
(* of the arguments, so sums, differences and comparisons are exact.       *)
(***************************************************************************)
EXTENDS Integers, Sequences, FiniteSets, TLC

\* ------------------------------------------------------------- bounds
\* Matrices have at most MaxAlt rows (alternatives), at most NCols columns
\* (criteria) and at most MaxCells entries; weights are in 1..MaxWeight.
MaxAlt == 3
NCols == 2
MaxCells == 6
MaxWeight == 2
Entries == {-1, 0, 1, 2}

\* ------------------------------------------------------------- util
MAX == 1
MIN == -1

\* ------------------------------------------------------------- rationals
Abs(x) == IF x < 0 THEN -x ELSE x

RECURSIVE GCD(_, _)
GCD(a, b) == IF b = 0 THEN a ELSE GCD(b, a % b)

Rat(p, q) ==
    LET g == GCD(Abs(p), Abs(q))
        sg == IF q < 0 THEN -1 ELSE 1
    IN  <<(sg * p) \div g, (sg * q) \div g>>

R0 == <<0, 1>>
R1 == <<1, 1>>
RInt(k) == <<k, 1>>
RAdd(a, b) == Rat(a[1] * b[2] + b[1] * a[2], a[2] * b[2])
RSub(a, b) == Rat(a[1] * b[2] - b[1] * a[2], a[2] * b[2])
RMul(a, b) == Rat(a[1] * b[1], a[2] * b[2])
RNeg(a) == <<-a[1], a[2]>>
RAbs(a) == <<Abs(a[1]), a[2]>>
RLess(a, b) == a[1] * b[2] < b[1] * a[2]

RECURSIVE RSum(_)
RSum(s) == IF s = <<>> THEN R0 ELSE RAdd(Head(s), RSum(Tail(s)))

RECURSIVE RMaxOf(_)
RMaxOf(s) ==
    IF Len(s) = 1 THEN s[1]
    ELSE LET r == RMaxOf(Tail(s)) IN IF RLess(s[1], r) THEN r ELSE s[1]

RECURSIVE RMinOf(_)
RMinOf(s) ==
    IF Len(s) = 1 THEN s[1]
    ELSE LET r == RMinOf(Tail(s)) IN IF RLess(r, s[1]) THEN r ELSE s[1]

\* ------------------------------------------------------------- matrices
NRows(m) == Len(m)
Width(m) == Len(m[1])
Column(m, j) == [i \in 1..Len(m) |-> m[i][j]]

RECURSIVE SumSq(_)
SumSq(col) == IF col = <<>> THEN 0 ELSE Head(col) * Head(col) + SumSq(Tail(col))

IsSquare(k) == \E r \in 0..k : r * r = k
ISqrt(k) == CHOOSE r \in 0..k : r * r = k

RECURSIVE IMin(_)
IMin(col) ==
    IF Len(col) = 1 THEN col[1]
    ELSE LET r == IMin(Tail(col)) IN IF col[1] < r THEN col[1] ELSE r

\* norm.vector(mtx, axis=0): each column divided by its Euclidean norm.
vector(mtx) ==
    [i \in 1..NRows(mtx) |->
        [j \in 1..Width(mtx) |-> [n |-> mtx[i][j], s |-> SumSq(Column(mtx, j))]]]

\* norm.sum(weights): the vector divided by the sum of its elements.
RECURSIVE ISum(_)
ISum(s) == IF s = <<>> THEN 0 ELSE Head(s) + ISum(Tail(s))

sum(weights) == [j \in 1..Len(weights) |-> Rat(weights[j], ISum(weights))]

\* norm.push_negatives(mtx, axis=0): a column with a negative minimum is
\* shifted up by the absolute value of that minimum.
push_negatives(mtx) ==
    [i \in 1..NRows(mtx) |->
        [j \in 1..Width(mtx) |->
            LET lo == IMin(Column(mtx, j))
            IN  IF lo < 0 THEN mtx[i][j] + Abs(lo) ELSE mtx[i][j]]]

\* norm.add1to0(mtx, axis=0): a column that holds a zero gets 1 added to
\* each of its elements.
add1to0(mtx) ==
    [i \in 1..NRows(mtx) |->
        [j \in 1..Width(mtx) |->
            IF IMin(Column(mtx, j)) = 0 THEN mtx[i][j] + 1 ELSE mtx[i][j]]]

\* util.criteriarr(criteria): the criteria as an array over {MAX, MIN}.
criteriarr(criteria) ==
    [j \in 1..Len(criteria) |-> IF criteria[j] = MAX THEN MAX ELSE MIN]

\* The value of a normalized entry, x / ||column||.
Val(e) == Rat(e.n, ISqrt(e.s))

\* ------------------------------------------------------------- logarithms
LFin(one, num, den) ==
    LET g == GCD(num, den)
    IN  [kind |-> "fin", one |-> one, num |-> num \div g, den |-> den \div g]

LZero == LFin(0, 1, 1)
LOne == LFin(1, 1, 1)
NINF == [kind |-> "ninf", one |-> 0, num |-> 1, den |-> 1]
PINF == [kind |-> "pinf", one |-> 0, num |-> 1, den |-> 1]
NAN == [kind |-> "nan", one |-> 0, num |-> 1, den |-> 1]

\* np.log of a normalized entry: -inf at zero, nan below it.
log(e) ==
    IF e.n > 0 THEN LFin(0, e.n * e.n, e.s)
    ELSE IF e.n = 0 THEN NINF ELSE NAN

LAdd(a, b) ==
    IF a.kind = "nan" \/ b.kind = "nan" THEN NAN
    ELSE IF a.kind = "fin" /\ b.kind = "fin"
         THEN LFin(a.one + b.one, a.num * b.num, a.den * b.den)
    ELSE IF a.kind = "fin" THEN b
    ELSE IF b.kind = "fin" THEN a
    ELSE IF a.kind = b.kind THEN a ELSE NAN

LNeg(a) ==
    IF a.kind = "fin" THEN LFin(-a.one, a.den, a.num)
    ELSE IF a.kind = "ninf" THEN PINF
    ELSE IF a.kind = "pinf" THEN NINF ELSE NAN

LSub(a, b) == LAdd(a, LNeg(b))

RECURSIVE LSum(_)
LSum(s) == IF s = <<>> THEN LZero ELSE LAdd(Head(s), LSum(Tail(s)))

\* The order a sort puts the values in: -inf, the finite values, +inf, and
\* nan last.  The finite scores of one call carry the same constant, so they
\* are ordered by their logarithmic parts.
LKind(a) ==
    IF a.kind = "ninf" THEN 0
    ELSE IF a.kind = "fin" THEN 1
    ELSE IF a.kind = "pinf" THEN 2 ELSE 3

LLess(a, b) ==
    IF a.kind = "fin" /\ b.kind = "fin"
    THEN IF a.one = b.one THEN a.num * b.den < b.num * a.den ELSE a.one < b.one
    ELSE LKind(a) < LKind(b)

\* ------------------------------------------------------------- rank
\* rank.rankdata(points, reverse): zero-based ranks, ascending, or descending
\* when reverse (the points negated); equal points keep their input order.
\* kind names the arithmetic of the points: "rat", "log" or "int".
rankdata(pts, reverse, kind) ==
    LET Lt(a, b) ==
            CASE kind = "rat" -> RLess(a, b)
              [] kind = "log" -> LLess(a, b)
              [] kind = "int" -> a < b
        Neg(a) ==
            CASE kind = "rat" -> RNeg(a)
              [] kind = "log" -> LNeg(a)
              [] kind = "int" -> -a
        key(i) == IF reverse THEN Neg(pts[i]) ELSE pts[i]
        Before(k, i) ==
            \/ Lt(key(k), key(i))
            \/ (~Lt(key(i), key(k)) /\ k < i)
    IN  [i \in 1..Len(pts) |-> Cardinality({k \in 1..Len(pts) : Before(k, i)})]

\* rank.dominance(a0, a1): the number of components where a0 is lower than
\* a1, minus the number where a1 is lower than a0.
dominance(a0, a1) ==
    Cardinality({c \in 1..Len(a0) : a0[c] < a1[c]})
        - Cardinality({c \in 1..Len(a0) : a1[c] < a0[c]})

\* ------------------------------------------------------------- numpy shapes
\* The length two 1-d operands broadcast to; 0 when they do not broadcast.
Broadcast(a, b) ==
    IF a = b THEN a ELSE IF a = 1 THEN b ELSE IF b = 1 THEN a ELSE 0

At(v, j) == IF Len(v) = 1 THEN v[1] ELSE v[j]

None == <<>>
Raise == [err |-> TRUE, rank |-> <<>>, points |-> <<>>]
Return(rank, points) == [err |-> FALSE, rank |-> rank, points |-> points]

\* ------------------------------------------------------------- _ratio
\* _ratio ranking ascending (reverse dropped).
_ratio_ascending(nmtx, criteria, nweights) ==
    LET L == Broadcast(Len(nweights), Len(criteria))
        cweights == [j \in 1..L |-> RMul(At(nweights, j), RInt(At(criteria, j)))]
        inner(i) == RSum([j \in 1..L |-> RMul(Val(nmtx[i][j]), cweights[j])])
        pts == [i \in 1..NRows(nmtx) |-> inner(i)]
    IN  IF L = 0 \/ L # Width(nmtx) THEN Raise
        ELSE Return(rankdata(pts, FALSE, "rat"), pts)

\* nweights is a vector, or <<R1>> for the scalar 1 (the two broadcast alike).
_ratio(nmtx, criteria, nweights) ==
    LET L == Broadcast(Len(nweights), Len(criteria))
        cweights == [j \in 1..L |-> RMul(At(nweights, j), RInt(At(criteria, j)))]
        inner(i) == RSum([j \in 1..L |-> RMul(Val(nmtx[i][j]), cweights[j])])
        pts == [i \in 1..NRows(nmtx) |-> inner(i)]
    IN  IF L = 0 \/ L # Width(nmtx) THEN Raise
        ELSE Return(rankdata(pts, TRUE, "rat"), pts)

\* ------------------------------------------------------------- _refpoint
\* The reference point: the column maximum where the mask is set (criterion
\* MAX), the column minimum elsewhere.
rpoints(nmtx, criteria) ==
    LET m == Width(nmtx)
        rpmax == [j \in 1..m |-> RMaxOf([i \in 1..NRows(nmtx) |-> Val(nmtx[i][j])])]
        rpmin == [j \in 1..m |-> RMinOf([i \in 1..NRows(nmtx) |-> Val(nmtx[i][j])])]
        mask == [j \in 1..Len(criteria) |-> IF criteria[j] = MAX THEN criteria[j] ELSE 0]
        L == Broadcast(Len(mask), m)
    IN  [j \in 1..L |-> IF At(mask, j) # 0 THEN At(rpmax, j) ELSE At(rpmin, j)]

\* _refpoint ranking descending (reverse added, as in _ratio and _fmf).
_refpoint_reversed(nmtx, criteria, nweights) ==
    LET m == Width(nmtx)
        rp == rpoints(nmtx, criteria)
        L2 == IF Len(rp) = 0 THEN 0 ELSE Broadcast(m, Len(rp))
        L3 == IF L2 = 0 THEN 0 ELSE Broadcast(Len(nweights), L2)
        dev(i, j) ==
            RAbs(RMul(At(nweights, j), RSub(Val(At(nmtx[i], j)), At(rp, j))))
        pts == [i \in 1..NRows(nmtx) |-> RMaxOf([j \in 1..L3 |-> dev(i, j)])]
    IN  IF L3 = 0 THEN Raise
        ELSE Return(rankdata(pts, TRUE, "rat"), pts)

_refpoint(nmtx, criteria, nweights) ==
    LET m == Width(nmtx)
        rp == rpoints(nmtx, criteria)
        L2 == IF Len(rp) = 0 THEN 0 ELSE Broadcast(m, Len(rp))
        L3 == IF L2 = 0 THEN 0 ELSE Broadcast(Len(nweights), L2)
        dev(i, j) ==
            RAbs(RMul(At(nweights, j), RSub(Val(At(nmtx[i], j)), At(rp, j))))
        pts == [i \in 1..NRows(nmtx) |-> RMaxOf([j \in 1..L3 |-> dev(i, j)])]
    IN  IF L3 = 0 THEN Raise
        ELSE Return(rankdata(pts, FALSE, "rat"), pts)

\* ------------------------------------------------------------- _fmf
\* not np.setdiff1d(criteria, [v]): the difference is empty (an empty array
\* is falsy in the numpy the code was written for), or its one element is
\* falsy.
OnlyValue(criteria, v) ==
    LET d == {criteria[j] : j \in 1..Len(criteria)} \ {v}
    IN  d = {} \/ d = {0}

\* The masked columns kept instead of deleted.
SumOnly(lrow, criteria, v) ==
    LET mask == {j \in 1..Len(criteria) : criteria[j] = v}
    IN  LSum([j \in 1..Len(lrow) |-> IF j \in mask THEN lrow[j] ELSE LZero])

\* np.delete(lmtx, mask, axis=1) summed along axis 1: the row sum over the
\* columns whose index is not among the positions where criteria = v.
SumWithout(lrow, criteria, v) ==
    LET mask == {j \in 1..Len(criteria) : criteria[j] = v}
    IN  LSum([j \in 1..Len(lrow) |-> IF j \in mask THEN LZero ELSE lrow[j]])

fmf_points(nmtx, criteria) ==
    LET lmtx == [i \in 1..NRows(nmtx) |-> [j \in 1..Width(nmtx) |-> log(nmtx[i][j])]]
    IN  IF OnlyValue(criteria, MAX)
        THEN [i \in 1..NRows(nmtx) |-> LSum(lmtx[i])]
        ELSE IF OnlyValue(criteria, MIN)
        THEN [i \in 1..NRows(nmtx) |-> LSub(LOne, LSum(lmtx[i]))]
        ELSE [i \in 1..NRows(nmtx) |->
                LET mins == SumWithout(lmtx[i], criteria, MAX)
                    maxs == SumWithout(lmtx[i], criteria, MIN)
                IN  LSub(maxs, mins)]

_fmf(nmtx, criteria) ==
    LET pts == fmf_points(nmtx, criteria)
    IN  Return(rankdata(pts, TRUE, "log"), pts)

\* ------------------------------------------------------------- entry points
NWeights(weights) == IF weights = None THEN <<R1>> ELSE sum(weights)

\* refpoint handing the weights on as supplied, wnorm skipped.
refpoint_rawweights(mtx, criteria, weights) ==
    _refpoint(vector(mtx), criteriarr(criteria),
              IF weights = None THEN <<R1>>
              ELSE [j \in 1..Len(weights) |-> RInt(weights[j])])

ratio(mtx, criteria, weights) ==
    _ratio(vector(mtx), criteriarr(criteria), NWeights(weights))

refpoint(mtx, criteria, weights) ==
    _refpoint(vector(mtx), criteriarr(criteria), NWeights(weights))

fmf_nmtx(mtx) == vector(add1to0(push_negatives(mtx)))

fmf(mtx, criteria) == _fmf(fmf_nmtx(mtx), criteriarr(criteria))

\* multimoora, up to the rank matrix: the three methods on one normalized
\* matrix, each with the scalar weight 1.
multimoora_ranks(mtx, criteria) ==
    LET nmtx == vector(mtx)
        ncriteria == criteriarr(criteria)
        r1 == _ratio(nmtx, ncriteria, <<R1>>)
        r2 == _refpoint(nmtx, ncriteria, <<R1>>)
        r3 == _fmf(nmtx, ncriteria)
    IN  IF r1.err \/ r2.err \/ r3.err THEN Raise
        ELSE Return(
            [i \in 1..NRows(mtx) |-> <<r1.rank[i], r2.rank[i], r3.rank[i]>>],
            <<>>)

\* itertools.combinations_with_replacement: an alternative paired with itself.
RECURSIVE combinations_with_self(_, _)
combinations_with_self(i, n) ==
    IF i > n THEN <<>>
    ELSE [k \in 1..(n - i + 1) |-> <<i, i + k - 1>>] \o combinations_with_self(i + 1, n)

\* itertools.combinations(range(n), 2), alternatives numbered from 1.
RECURSIVE combinations(_, _)
combinations(i, n) ==
    IF i >= n THEN <<>>
    ELSE [k \in 1..(n - i) |-> <<i, i + k>>] \o combinations(i + 1, n)

\* The sign of the dominance read the other way round.
dom_idx_negative(idx0, idx1, dom) == IF dom < 0 THEN idx0 ELSE idx1

\* dom_idx = idx0 if dom > 0 else idx1
dom_idx(idx0, idx1, dom) == IF dom > 0 THEN idx0 ELSE idx1

\* points[dom_idx] += 1
tally(pts, idx) == [pts EXCEPT ![idx] = @ + 1]

\* ------------------------------------------------------------- inputs
\* Columns of n entries whose Euclidean norm is a positive integer.
Cols(n) == {c \in [1..n -> Entries] : SumSq(c) > 0 /\ IsSquare(SumSq(c))}

FromColumns(cm, n, m) == [i \in 1..n |-> [j \in 1..m |-> cm[j][i]]]

Shapes == {sh \in (1..MaxAlt) \X (1..NCols) : sh[1] * sh[2] <= MaxCells}

Matrices ==
    UNION {{FromColumns(cm, sh[1], sh[2]) : cm \in [1..sh[2] -> Cols(sh[1])]} :
           sh \in Shapes}

\* Criteria and weights vectors for a matrix of m columns: of the right
\* length, or shorter.
CriteriaVecs(m) == UNION {[1..k -> {MAX, MIN}] : k \in 1..m}

WeightVecs(m) == {None} \cup UNION {[1..k -> 1..MaxWeight] : k \in 1..m}

\* ------------------------------------------------------------- state
VARIABLES
    pc,         \* "idle", "voting" (inside multimoora's loop), "returned", "raised"
    op,         \* the entry point called
    mtx,        \* the decision matrix the caller holds
    criteria, weights,          \* the other arguments of the call
    nmtx,       \* the normalized matrix handed to the scoring function
    nweights,   \* the weights handed to the scoring function
    logged,     \* np.log has been applied to nmtx
    rnk,        \* the rank vector returned
    points,     \* the score vector returned; multimoora's points tally
    rank_mtx,   \* multimoora's rank matrix
    it          \* the number of pairs the loop has consumed

vars == <<pc, op, mtx, criteria, weights, nmtx, nweights, logged, rnk, points,
          rank_mtx, it>>

Init ==
    /\ pc = "idle"
    /\ op = "none"
    /\ mtx \in Matrices
    /\ criteria = <<>>
    /\ weights = None
    /\ nmtx = <<>>
    /\ nweights = <<>>
    /\ logged = FALSE
    /\ rnk = <<>>
    /\ points = <<>>
    /\ rank_mtx = <<>>
    /\ it = 0

Finish(r) ==
    /\ pc' = IF r.err THEN "raised" ELSE "returned"
    /\ rnk' = r.rank
    /\ points' = r.points

CallRatio ==
    /\ pc = "idle"
    /\ \E C \in CriteriaVecs(Width(mtx)), W \in WeightVecs(Width(mtx)) :
        /\ op' = "ratio"
        /\ criteria' = C /\ weights' = W
        /\ nmtx' = vector(mtx)
        /\ nweights' = NWeights(W)
        /\ Finish(ratio(mtx, C, W))
        /\ UNCHANGED <<mtx, logged, rank_mtx, it>>

CallRefpoint ==
    /\ pc = "idle"
    /\ \E C \in CriteriaVecs(Width(mtx)), W \in WeightVecs(Width(mtx)) :
        /\ op' = "refpoint"
        /\ criteria' = C /\ weights' = W
        /\ nmtx' = vector(mtx)
        /\ nweights' = NWeights(W)
        /\ Finish(refpoint(mtx, C, W))
        /\ UNCHANGED <<mtx, logged, rank_mtx, it>>

CallFmf ==
    /\ pc = "idle"
    /\ \E C \in CriteriaVecs(Width(mtx)) :
        /\ op' = "fmf"
        /\ criteria' = C
        /\ nmtx' = fmf_nmtx(mtx)
        /\ logged' = TRUE
        /\ Finish(fmf(mtx, C))
        /\ UNCHANGED <<mtx, weights, nweights, rank_mtx, it>>

\* multimoora, lines 222-232: the rank matrix and the zeroed tally.
CallMultimoora ==
    /\ pc = "idle"
    /\ \E C \in CriteriaVecs(Width(mtx)) :
        LET r == multimoora_ranks(mtx, C)
            nc == criteriarr(C)
            reached ==
                /\ ~_ratio(vector(mtx), nc, <<R1>>).err
                /\ ~_refpoint(vector(mtx), nc, <<R1>>).err
        IN  /\ op' = "multimoora"
            /\ criteria' = C
            /\ nmtx' = vector(mtx)
            /\ logged' = reached
            /\ pc' = IF r.err THEN "raised" ELSE "voting"
            /\ rank_mtx' = r.rank
            /\ points' = IF r.err THEN <<>> ELSE [i \in 1..NRows(mtx) |-> 0]
            /\ it' = 0
            /\ UNCHANGED <<mtx, weights, nweights, rnk>>

\* One iteration of the loop, lines 233-237.
Vote ==
    /\ pc = "voting"
    /\ it < Len(combinations(1, Len(rank_mtx)))
    /\ LET pair == combinations(1, Len(rank_mtx))[it + 1]
           idx0 == pair[1]
           idx1 == pair[2]
           dom == dominance(rank_mtx[idx0], rank_mtx[idx1])
       IN  points' = tally(points, dom_idx(idx0, idx1, dom))
    /\ it' = it + 1
    /\ UNCHANGED <<pc, op, mtx, criteria, weights, nmtx, nweights, logged, rnk,
                   rank_mtx>>

\* The loop is exhausted: line 239.
MultimooraReturn ==
    /\ pc = "voting"
    /\ it = Len(combinations(1, Len(rank_mtx)))
    /\ rnk' = rankdata(points, TRUE, "int")
    /\ pc' = "returned"
    /\ UNCHANGED <<op, mtx, criteria, weights, nmtx, nweights, logged, points,
                   rank_mtx, it>>

Next ==
    \/ CallRatio
    \/ CallRefpoint
    \/ CallFmf
    \/ CallMultimoora
    \/ Vote
    \/ MultimooraReturn

Spec == Init /\ [][Next]_vars

\* ------------------------------------------------------------- properties
Alts == 1..Len(mtx)
Returned(o) == op = o /\ pc = "returned"
Columns == 1..Width(mtx)
ValidCriteria == Len(criteria) = Width(mtx)
ValidWeights == weights = None \/ Len(weights) = Width(mtx)

\* N[i, j], W[j] and C[j] of the statements below.
N(i, j) == Val(nmtx[i][j])
W(j) == At(nweights, j)
MaxCols == {j \in Columns : criteria[j] = MAX}
MinCols == {j \in Columns : criteria[j] = MIN}

RECURSIVE RSumOver(_, _)
RSumOver(f, S) ==
    IF S = {} THEN R0
    ELSE LET j == CHOOSE x \in S : TRUE IN RAdd(f[j], RSumOver(f, S \ {j}))

RECURSIVE LSumOver(_, _)
LSumOver(f, S) ==
    IF S = {} THEN LZero
    ELSE LET j == CHOOSE x \in S : TRUE IN LAdd(f[j], LSumOver(f, S \ {j}))

Descending(Lt(_, _)) ==
    /\ \A i, k \in Alts : Lt(points[k], points[i]) => rnk[i] < rnk[k]
    /\ \E i \in Alts : rnk[i] = 0 /\ \A k \in Alts : ~Lt(points[i], points[k])

Ascending(Lt(_, _)) ==
    /\ \A i, k \in Alts : Lt(points[i], points[k]) => rnk[i] < rnk[k]
    /\ \E i \in Alts : rnk[i] = 0 /\ \A k \in Alts : ~Lt(points[k], points[i])

\* C1: ratio scores alternative i with the sum over the columns j of
\* N[i,j]*W[j]*C[j] and ranks descending: a strictly larger score has a
\* strictly smaller rank, and the largest score has rank 0.
C1_RatioScoreAndRank ==
    (Returned("ratio") /\ ValidCriteria /\ ValidWeights) =>
        /\ \A i \in Alts :
            points[i] = RSumOver(
                [j \in Columns |-> RMul(RMul(N(i, j), W(j)), RInt(criteria[j]))],
                Columns)
        /\ Descending(RLess)

C1_Witness ==
    /\ Returned("ratio")
    /\ Len(mtx) = 3 /\ Width(mtx) >= 2
    /\ ValidCriteria /\ criteria[1] = MAX /\ criteria[2] = MIN
    /\ weights # None /\ Len(weights) = Width(mtx) /\ weights[1] # weights[2]
    /\ \A i, k \in Alts : i # k => points[i] # points[k]

\* The reference point of column j: the column maximum for a MAX criterion,
\* the column minimum for a MIN criterion.
Reference(j) ==
    IF criteria[j] = MAX
    THEN CHOOSE v \in {N(i, j) : i \in Alts} : \A i \in Alts : ~RLess(v, N(i, j))
    ELSE CHOOSE v \in {N(i, j) : i \in Alts} : \A i \in Alts : ~RLess(N(i, j), v)

\* The deviations of alternative i under the weights w.
Deviations(i, w) ==
    {RAbs(RMul(At(w, j), RSub(N(i, j), Reference(j)))) : j \in Columns}

Greatest(S) == CHOOSE v \in S : \A u \in S : ~RLess(v, u)

\* C2: refpoint scores alternative i with the maximum over the columns j of
\* |W[j]*(N[i,j] - reference[j])| and ranks ascending, unreversed: a strictly
\* smaller deviation has a strictly smaller rank, and the smallest has rank 0.
C2_RefpointScoreAndRank ==
    (Returned("refpoint") /\ ValidCriteria /\ ValidWeights) =>
        /\ \A i \in Alts : points[i] = Greatest(Deviations(i, nweights))
        /\ Ascending(RLess)

C2_Witness ==
    /\ Returned("refpoint")
    /\ Len(mtx) = 3 /\ Width(mtx) >= 2
    /\ ValidCriteria /\ MaxCols # {} /\ MinCols # {}
    /\ weights # None /\ Len(weights) = Width(mtx) /\ weights[1] # weights[2]
    /\ \E i, k \in Alts : RLess(points[i], points[k]) /\ rnk[i] = 0 /\ rnk[k] > 0

\* The logarithms of row i of the normalized matrix.
Logs(i) == [j \in Columns |-> log(nmtx[i][j])]
General(i) == LSub(LSumOver(Logs(i), MaxCols), LSumOver(Logs(i), MinCols))
Positive == \A i \in Alts : \A j \in Columns : nmtx[i][j].n > 0

\* C3: on a strictly positive normalized matrix fmf scores alternative i with
\* the row sum of the logarithms when every criterion is MAX, 1 minus that
\* sum when every criterion is MIN, and otherwise the sum over the MAX
\* columns minus the sum over the MIN columns; it ranks descending.
C3_FmfScoreAndRank ==
    (Returned("fmf") /\ ValidCriteria /\ Positive) =>
        /\ \A i \in Alts :
            points[i] =
                IF MinCols = {} THEN LSumOver(Logs(i), Columns)
                ELSE IF MaxCols = {} THEN LSub(LOne, LSumOver(Logs(i), Columns))
                ELSE General(i)
        /\ Descending(LLess)

C3_Witness ==
    /\ Returned("fmf") /\ ValidCriteria /\ Positive
    /\ MaxCols # {} /\ MinCols # {}
    /\ Len(mtx) = 3
    /\ \E i, k \in Alts : LLess(points[i], points[k])

\* ------------------------------------------------------------- multimoora
InLoop == op = "multimoora" /\ pc \in {"voting", "returned"}

\* The number of the 3 methods that give alternative i a lower rank than j.
Favoring(i, j) == Cardinality({c \in 1..3 : rank_mtx[i][c] < rank_mtx[j][c]})

\* The alternative of the pair i < j that receives the point.
Winner(i, j) == IF Favoring(i, j) > Favoring(j, i) THEN i ELSE j

AllPairs == {pr \in Alts \X Alts : pr[1] < pr[2]}

\* C4: of every pair i < j exactly one alternative receives one point: i if
\* and only if strictly more methods favor i than favor j, otherwise j.  With
\* 2 alternatives of which one has the lower rank in all 3 methods, that one
\* has the only point and the final rank 0.
C4_PairwiseVote ==
    (op = "multimoora" /\ pc = "returned") =>
        /\ \A a \in Alts :
            points[a] = Cardinality({pr \in AllPairs : Winner(pr[1], pr[2]) = a})
        /\ \A a, b \in Alts :
            (Len(mtx) = 2 /\ Favoring(a, b) = 3) =>
                points[a] = 1 /\ points[b] = 0 /\ rnk[a] = 0

C4_Witness ==
    /\ op = "multimoora" /\ pc = "returned"
    /\ Len(mtx) = 3
    /\ \E pr \in AllPairs : Favoring(pr[1], pr[2]) = 2
    /\ \E pr \in AllPairs : Favoring(pr[1], pr[2]) = 1

\* The 2-alternative case of C4.
C4_WitnessTwo ==
    /\ op = "multimoora" /\ pc = "returned"
    /\ Len(mtx) = 2
    /\ Favoring(1, 2) = 3
    /\ rnk = <<0, 1>>

\* C5: the rank matrix has the 3 columns Ratio, RefPoint, FMF, and column j
\* is the rank vector the entry point of method j returns for the same matrix
\* and criteria with no weights.
C5_RankMatrixColumns ==
    (InLoop /\ ValidCriteria) =>
        \A i \in Alts :
            rank_mtx[i] = << ratio(mtx, criteria, None).rank[i],
                             refpoint(mtx, criteria, None).rank[i],
                             fmf(mtx, criteria).rank[i] >>

\* C6: a call whose criteria vector, or (ratio, refpoint) whose weights
\* vector, differs in length from the matrix's columns ends in an error and
\* returns no rank.
C6_ShapeMismatchRaises ==
    (pc # "idle" /\
        (~ValidCriteria \/ (op \in {"ratio", "refpoint"} /\ ~ValidWeights))) =>
            pc = "raised" /\ rnk = <<>> /\ rank_mtx = <<>>

\* C7: when every criterion is MAX, and when every criterion is MIN, the score
\* fmf returns equals the general formula, the sum of the logarithms over the
\* MAX columns minus the sum over the MIN columns.
C7_SpecialCasesAgree ==
    (Returned("fmf") /\ ValidCriteria /\ Positive /\ (MaxCols = {} \/ MinCols = {})) =>
        \A i \in Alts : points[i] = General(i)

\* C8 as stated: refpoint multiplies the deviations by the supplied weights
\* themselves, and by 1 when there are none.
C8_WeightsUnnormalized ==
    (Returned("refpoint") /\ ValidCriteria /\ ValidWeights) =>
        \A i \in Alts :
            points[i] = Greatest(Deviations(i,
                IF weights = None THEN <<R1>>
                ELSE [j \in Columns |-> RInt(weights[j])]))

\* C8 amended: refpoint multiplies the deviations by the supplied weights
\* divided by their sum, and by 1 when there are none.
C8_WeightsSumNormalized ==
    (Returned("refpoint") /\ ValidCriteria /\ ValidWeights) =>
        \A i \in Alts :
            points[i] = Greatest(Deviations(i,
                IF weights = None THEN <<R1>>
                ELSE [j \in Columns |-> Rat(weights[j], ISum(weights))]))

C8_Witness ==
    /\ Returned("refpoint") /\ ValidCriteria
    /\ weights # None /\ Len(weights) = Width(mtx) /\ ISum(weights) > 1
    /\ \E i \in Alts : points[i] # R0

\* C9: whenever np.log is applied, the matrix it is applied to is the input
\* shifted by push_negatives and add1to0 and then normalized, and each of its
\* entries is strictly positive.
C9_LogOfPositive ==
    logged => (nmtx = vector(add1to0(push_negatives(mtx))) /\ Positive)

\* C10: after k pairs the tally sums to k, each entry between 0 and n-1; the
\* loop visits each unordered pair exactly once and ends after n*(n-1)/2
\* pairs; for n = 1 it visits none, points = [0] and the final rank is [0].
C10_TallyCountsPairs ==
    InLoop =>
        LET n == Len(rank_mtx)
            visited == combinations(1, n)
        IN  /\ ISum(points) = it
            /\ \A a \in 1..n : points[a] \in 0..(n - 1)
            /\ \A pr \in AllPairs :
                Cardinality({t \in 1..Len(visited) : visited[t] = pr}) = 1
            /\ \A t \in 1..Len(visited) : visited[t] \in AllPairs
            /\ it <= Len(visited)
            /\ pc = "returned" => 2 * it = n * (n - 1)
            /\ (pc = "returned" /\ n = 1) => (points = <<0>> /\ rnk = <<0>>)

C10_Witness ==
    /\ InLoop /\ pc = "voting"
    /\ Len(rank_mtx) = 3
    /\ it = 2
    /\ \E a \in Alts : points[a] = 2

\* The single-alternative case of C10.
C10_WitnessOne ==
    /\ InLoop /\ pc = "returned"
    /\ Len(rank_mtx) = 1

====
